---- MODULE Spec2Model ----
(***************************************************************************)
(* A model of the two XDF editing scripts of n54-xdf-fun:                  *)
(*   n54-excel-validation-modifier.py  (spreadsheet-driven edit pass)      *)
(*   xdf-freedom.py                    (interactive category/title rename) *)
(*                                                                         *)
(* Text is a sequence of one-character strings, so that str.strip,         *)
(* str.upper, the `in` substring test and the "{:.2f}" format are computed *)
(* character by character.  Every Python value is a record [k, s, n]:      *)
(*   k = "None"    Python None (empty cell, missing attribute, no text)    *)
(*   k = "str"     a str with characters s                                 *)
(*   k = "num"     an int/float, n in thousandths (300 is n = 300000)      *)
(*   k = "absent"  Element.find() found no such child element              *)
(***************************************************************************)
EXTENDS Integers, Sequences, FiniteSets, TLC

VARIABLES
    script,           \* which script runs: "excel" or "freedom"
    pc,               \* position in main()
    xdf,              \* the input file "I8A0S Custom.xdf" (NoFile when missing)
    workbook,         \* the rows of "N5X Tuning Spreadsheet.xlsx" from row 2 on
    spreadsheet_data, \* the list load_spreadsheet_data returned
    tree,             \* the parsed, mutable element tree
    tables_by_addr,   \* the address index: key |-> position of the XDFTABLE
    i,                \* number of entries of spreadsheet_data already consumed
    rename_map,       \* the dict prompt_user_for_menu_updates returned
    log,              \* the lines printed so far
    output,           \* the output file (NoFile until written)
    status            \* exit status of the process ("running" until it ends)

vars == <<script, pc, xdf, workbook, spreadsheet_data, tree, tables_by_addr,
          i, rename_map, log, output, status>>

----------------------------------------------------------------------------
(* Bounds of the model *)

MaxTables == 2
MaxRows == 2
MaxCats == 2

----------------------------------------------------------------------------
(* Python values *)

Val(k, s, n) == [k |-> k, s |-> s, n |-> n]
None == Val("None", <<>>, 0)
Str(s) == Val("str", s, 0)
Num(n) == Val("num", <<>>, n)
NoElem == Val("absent", <<>>, 0)
NoFile == [exists |-> FALSE]

\* Python truth value of a cell / attribute / text: None, "" and 0 are false.
Truthy(v) ==
    \/ v.k = "str" /\ v.s # <<>>
    \/ v.k = "num" /\ v.n # 0

Lower == <<"a", "b", "c", "d", "e", "f", "g", "h", "i", "j", "k", "l", "m",
           "n", "o", "p", "q", "r", "s", "t", "u", "v", "w", "x", "y", "z">>
Uppers == <<"A", "B", "C", "D", "E", "F", "G", "H", "I", "J", "K", "L", "M",
            "N", "O", "P", "Q", "R", "S", "T", "U", "V", "W", "X", "Y", "Z">>
WhiteSpace == {" ", "\t", "\n", "\r"}

UpperChar(c) ==
    IF \E j \in 1..Len(Lower) : Lower[j] = c
    THEN Uppers[CHOOSE j \in 1..Len(Lower) : Lower[j] = c]
    ELSE c

\* str.upper()
Upper(s) == [j \in 1..Len(s) |-> UpperChar(s[j])]

\* str.strip(): drop leading and trailing whitespace
Strip(s) ==
    LET keep == {j \in 1..Len(s) : s[j] \notin WhiteSpace}
    IN  IF keep = {} THEN <<>>
        ELSE LET lo == CHOOSE j \in keep : \A m \in keep : j <= m
                 hi == CHOOSE j \in keep : \A m \in keep : j >= m
             IN  SubSeq(s, lo, hi)

\* needle in hay
Contains(needle, hay) ==
    \E j \in 0..(Len(hay) - Len(needle)) :
        SubSeq(hay, j + 1, j + Len(needle)) = needle

Digits == <<"0", "1", "2", "3", "4", "5", "6", "7", "8", "9">>
IsDigit(c) == \E j \in 1..10 : Digits[j] = c
DigitVal(c) == (CHOOSE j \in 1..10 : Digits[j] = c) - 1

RECURSIVE NatText(_)
NatText(n) ==
    IF n < 10 THEN <<Digits[n + 1]>>
    ELSE Append(NatText(n \div 10), Digits[(n % 10) + 1])

RECURSIVE DigitsVal(_)
DigitsVal(s) ==
    IF s = <<>> THEN 0
    ELSE 10 * DigitsVal(SubSeq(s, 1, Len(s) - 1)) + DigitVal(s[Len(s)])

\* f"{x:.2f}" of a number of n thousandths: the nearest hundredth, with two
\* decimals.  (No input of the model lies exactly between two hundredths.)
Format2f(n) ==
    LET a == IF n < 0 THEN -n ELSE n
        h == (a + 5) \div 10
        body == NatText(h \div 100)
                  \o <<".", Digits[((h \div 10) % 10) + 1], Digits[(h % 10) + 1]>>
    IN  IF n < 0 THEN <<"-">> \o body ELSE body

\* float(text) for the log line: the value in thousandths, or None when the
\* conversion raises (text is None, empty, or not a decimal numeral).  Only
\* plain decimal numerals of at most three decimals are read as numbers.
ParseFloat(v) ==
    IF v.k # "str" THEN None
    ELSE LET s == Strip(v.s)
             neg == s # <<>> /\ s[1] = "-"
             u == IF s # <<>> /\ s[1] \in {"-", "+"} THEN Tail(s) ELSE s
             dots == {j \in 1..Len(u) : u[j] = "."}
             dot == IF dots = {} THEN Len(u) + 1 ELSE CHOOSE j \in dots : TRUE
             ip == SubSeq(u, 1, dot - 1)
             fp == SubSeq(u, dot + 1, Len(u))
             ok == /\ Cardinality(dots) <= 1
                   /\ Len(ip) + Len(fp) > 0
                   /\ Len(fp) <= 3
                   /\ \A j \in 1..Len(u) : j = dot \/ IsDigit(u[j])
             fp3 == fp \o SubSeq(<<"0", "0", "0">>, 1, 3 - Len(fp))
             mag == 1000 * DigitsVal(ip) + DigitsVal(fp3)
         IN  IF ~ok THEN None ELSE Num(IF neg THEN -mag ELSE mag)

----------------------------------------------------------------------------
(* The XDF document.  A tree is [exists, header, tables]:                  *)
(*   exists  os.path.isfile: TRUE for every document, FALSE for NoFile     *)
(*   header  [present, cats]: whether the root has an XDFHEADER child, and *)
(*           the name attributes of its CATEGORY children (None: no name)  *)
(*   tables  the XDFTABLE children of the root in document order, each     *)
(*     title        text of the first <title> child, NoElem without one    *)
(*     hasZ         the table has an XDFAXIS child with id="z"             *)
(*     hasEmbed     that axis has an EMBEDDEDDATA child                    *)
(*     mmedaddress  its mmedaddress attribute (None: no such attribute)    *)
(*     max          text of the <max> child of the z axis, NoElem without  *)
(*     cats         name attributes of CATEGORY children of the table      *)

Table(title, hasZ, hasEmbed, addr, max, cats) ==
    [title |-> title, hasZ |-> hasZ, hasEmbed |-> hasEmbed,
     mmedaddress |-> addr, max |-> max, cats |-> cats]

Header(cats) == [present |-> TRUE, cats |-> cats]
NoHeader == [present |-> FALSE, cats |-> <<>>]

SeqsUpTo(S, n) == UNION {[1..m -> S] : m \in 0..n}

BoostControl == <<"B", "o", "o", "s", "t", " ", "C", "o", "n", "t", "r", "o", "l">>
Fuel == <<"F", "u", "e", "l">>
Ignition == <<"I", "g", "n", "i", "t", "i", "o", "n">>
Limits == <<"L", "i", "m", "i", "t", "s">>

\* Documents given to the spreadsheet script.
AddrMixed == Str(<<"0", "x", "4", "A">>)
AddrSpaced == Str(<<" ", "0", "x", "4", "a">>)
OldTitle == Str(<<"T">>)
OldMax == Str(<<"2", "5", "5">>)
BadMax == Str(<<"n", "/", "a">>)

ExcelTables ==
    { Table(OldTitle, TRUE, TRUE, AddrMixed, OldMax, <<>>),   \* complete table
      Table(OldTitle, TRUE, TRUE, AddrSpaced, OldMax, <<>>),  \* padded address
      Table(NoElem, TRUE, TRUE, AddrMixed, BadMax, <<>>),     \* no title, old max not a number
      Table(OldTitle, TRUE, TRUE, AddrMixed, NoElem, <<>>),   \* no max
      Table(OldTitle, FALSE, FALSE, None, NoElem, <<>>),      \* no z axis
      Table(OldTitle, TRUE, TRUE, None, OldMax, <<>>) }       \* no mmedaddress

ExcelDocs ==
    {[exists |-> TRUE, header |-> Header(<<Str(Fuel)>>), tables |-> ts] : ts \in SeqsUpTo(ExcelTables, MaxTables)}

\* Rows of the workbook (columns A-D), as openpyxl hands them over.
Row(name, addr, max, title) ==
    [param_name |-> name, xdf_address |-> addr, new_max |-> max, new_title |-> title]

ParamName == Str(<<"P">>)
RowAddr == Str(<<" ", "0", "x", "4", "a">>)
UnknownAddr == Str(<<"0", "x", "9", "c">>)
TitleA == Str(<<"A">>)
TitleB == Str(<<"B">>)
NumCell == Num(299996)
ZeroCell == Num(0)
TextCell == Str(<<"3", "0", "0">>)

RowSet ==
    { Row(None, RowAddr, NumCell, TitleA),        \* no parameter name
      Row(ParamName, None, NumCell, TitleA),      \* empty address cell
      Row(ParamName, Num(74000), NumCell, TitleA),\* address cell holds a number
      Row(ParamName, UnknownAddr, NumCell, TitleA),
      Row(ParamName, RowAddr, None, TitleA),
      Row(ParamName, RowAddr, NumCell, TitleB),
      Row(ParamName, RowAddr, ZeroCell, None),
      Row(ParamName, RowAddr, TextCell, TitleA) } \* bound cell holds text

Workbooks == {[exists |-> TRUE, rows |-> rs] : rs \in SeqsUpTo(RowSet, MaxRows)}

----------------------------------------------------------------------------
(* n54-excel-validation-modifier.py *)

Line(kind, a, b, where) == [kind |-> kind, a |-> a, b |-> b, where |-> where]

\* load_spreadsheet_data: the rows in sheet order, without those whose
\* parameter name is empty.
RECURSIVE load_newest_first(_)
load_newest_first(rows) ==
    IF rows = <<>> THEN <<>>
    ELSE LET rest == load_newest_first(Tail(rows))
         IN  IF ~Truthy(Head(rows).param_name) THEN rest
             ELSE rest \o <<Head(rows)>>
RECURSIVE load_spreadsheet_data(_)
load_spreadsheet_data(rows) ==
    IF rows = <<>> THEN <<>>
    ELSE LET rest == load_spreadsheet_data(Tail(rows))
         IN  IF ~Truthy(Head(rows).param_name) THEN rest
             ELSE <<Head(rows)>> \o rest

\* Key under which the index files a table's address.
IndexKey(address) == Upper(address)

\* Key under which a row's address is looked up.
LookupKey(desired_addr) == Upper(Strip(desired_addr))

\* The loop that fills tables_by_addr, over the first n tables.
RECURSIVE BuildIndex(_, _)
BuildIndex(tables, n) ==
    IF n = 0 THEN <<>>
    ELSE LET prev == BuildIndex(tables, n - 1)
             table == tables[n]
         IN  IF table.hasZ /\ table.hasEmbed /\ Truthy(table.mmedaddress)
             THEN LET key == IndexKey(table.mmedaddress.s)
                  IN  [k \in (DOMAIN prev) \cup {key} |->
                          IF k = key THEN n ELSE prev[k]]
             ELSE prev

\* Example A: rename the <title> element.
TitleWritten(table, new_title) == Truthy(new_title) /\ table.title # NoElem
SetTitle(table, new_title) ==
    IF TitleWritten(table, new_title)
    THEN [table EXCEPT !.title = new_title]
    ELSE table
TitleLines(table, new_title, key) ==
    IF TitleWritten(table, new_title)
    THEN <<Line("title", table.title, new_title, key)>>
    ELSE <<>>

\* Example B: raise <max> in the z axis.
MaxReached(table, new_max) == new_max # None /\ table.hasZ /\ table.max # NoElem
FormatRaises(new_max) == new_max.k # "num"
SetMax(table, new_max) ==
    IF MaxReached(table, new_max)
    THEN [table EXCEPT !.max = Str(Format2f(new_max.n))]
    ELSE table
MaxLines(table, new_max, key) ==
    IF MaxReached(table, new_max)
    THEN <<Line("max", ParseFloat(table.max), new_max, key)>>
    ELSE <<>>

NoWarningLines(row, key) == <<>>
WarningLines(row, key) == <<Line("warning", row.param_name, None, key)>>

ExcelMain ==
    /\ script = "excel" /\ pc = "main"
    /\ IF ~xdf.exists
       THEN /\ log' = Append(log, Line("error", Str(<<"x", "d", "f">>), None, <<>>))
            /\ pc' = "exited" /\ status' = "exit1"
       ELSE IF ~workbook.exists
       THEN /\ log' = Append(log, Line("error", Str(<<"x", "l", "s", "x">>), None, <<>>))
            /\ pc' = "exited" /\ status' = "exit1"
       ELSE /\ pc' = "load" /\ UNCHANGED <<log, status>>
    /\ UNCHANGED <<script, xdf, workbook, spreadsheet_data, tree, tables_by_addr,
                   i, rename_map, output>>

LoadSpreadsheet ==
    /\ script = "excel" /\ pc = "load"
    /\ spreadsheet_data' = load_spreadsheet_data(workbook.rows)
    /\ pc' = "parse"
    /\ UNCHANGED <<script, xdf, workbook, tree, tables_by_addr, i, rename_map,
                   log, output, status>>

ParseAndIndex ==
    /\ script = "excel" /\ pc = "parse"
    /\ tree' = xdf
    /\ tables_by_addr' = BuildIndex(xdf.tables, Len(xdf.tables))
    /\ i' = 0
    /\ pc' = "rows"
    /\ UNCHANGED <<script, xdf, workbook, spreadsheet_data, rename_map, log,
                   output, status>>

AtRow == script = "excel" /\ pc = "rows" /\ i < Len(spreadsheet_data)
CurRow == spreadsheet_data[i + 1]

RowFrame == UNCHANGED <<script, xdf, workbook, spreadsheet_data, tables_by_addr,
                        rename_map, output>>

\* if not desired_addr: continue
RowNoAddress ==
    /\ AtRow
    /\ ~Truthy(CurRow.xdf_address)
    /\ i' = i + 1
    /\ UNCHANGED <<pc, tree, log, status>>
    /\ RowFrame

\* desired_addr.strip() on a number raises AttributeError
RowAddressNotText ==
    /\ AtRow
    /\ Truthy(CurRow.xdf_address) /\ CurRow.xdf_address.k # "str"
    /\ pc' = "crashed" /\ status' = "exit1"
    /\ UNCHANGED <<i, tree, log>>
    /\ RowFrame

RowUnresolved ==
    /\ AtRow
    /\ Truthy(CurRow.xdf_address) /\ CurRow.xdf_address.k = "str"
    /\ LET key == LookupKey(CurRow.xdf_address.s)
       IN  /\ key \notin DOMAIN tables_by_addr
           /\ log' = log \o WarningLines(CurRow, key)
    /\ i' = i + 1
    /\ UNCHANGED <<pc, tree, status>>
    /\ RowFrame

RowResolved ==
    /\ AtRow
    /\ Truthy(CurRow.xdf_address) /\ CurRow.xdf_address.k = "str"
    /\ LET key == LookupKey(CurRow.xdf_address.s)
       IN  /\ key \in DOMAIN tables_by_addr
           /\ LET n == tables_by_addr[key]
                  t0 == tree.tables[n]
                  t1 == SetTitle(t0, CurRow.new_title)
                  l1 == TitleLines(t0, CurRow.new_title, key)
              IN  /\ ~(MaxReached(t1, CurRow.new_max) /\ FormatRaises(CurRow.new_max))
                  /\ tree' = [tree EXCEPT !.tables[n] = SetMax(t1, CurRow.new_max)]
                  /\ log' = log \o l1 \o MaxLines(t1, CurRow.new_max, key)
                  /\ i' = i + 1
                  /\ UNCHANGED <<pc, status>>
    /\ RowFrame

\* The same lines when f"{new_max:.2f}" raises ValueError (new_max is a str):
\* the title is already overwritten, the exception ends the process.
RowResolvedFormatError ==
    /\ AtRow
    /\ Truthy(CurRow.xdf_address) /\ CurRow.xdf_address.k = "str"
    /\ LET key == LookupKey(CurRow.xdf_address.s)
       IN  /\ key \in DOMAIN tables_by_addr
           /\ LET n == tables_by_addr[key]
                  t0 == tree.tables[n]
                  t1 == SetTitle(t0, CurRow.new_title)
                  l1 == TitleLines(t0, CurRow.new_title, key)
              IN  /\ MaxReached(t1, CurRow.new_max) /\ FormatRaises(CurRow.new_max)
                  /\ tree' = [tree EXCEPT !.tables[n] = t1]
                  /\ log' = log \o l1
                  /\ pc' = "crashed" /\ status' = "exit1"
                  /\ UNCHANGED i
    /\ RowFrame

ExcelWrite ==
    /\ script = "excel" /\ pc = "rows" /\ i = Len(spreadsheet_data)
    /\ output' = tree
    /\ log' = Append(log, Line("success", None, None, <<>>))
    /\ pc' = "done" /\ status' = "exit0"
    /\ UNCHANGED <<script, xdf, workbook, spreadsheet_data, tree, tables_by_addr,
                   i, rename_map>>

InitExcel ==
    /\ script = "excel" /\ pc = "main"
    /\ xdf \in ExcelDocs \cup {NoFile}
    /\ workbook \in Workbooks \cup {NoFile}
    /\ spreadsheet_data = <<>>
    /\ tree = NoFile
    /\ tables_by_addr = <<>>
    /\ i = 0
    /\ rename_map = <<>>
    /\ log = <<>>
    /\ output = NoFile
    /\ status = "running"

NextExcel ==
    \/ ExcelMain
    \/ LoadSpreadsheet
    \/ ParseAndIndex
    \/ RowNoAddress
    \/ RowAddressNotText
    \/ RowUnresolved
    \/ RowResolved
    \/ RowResolvedFormatError
    \/ ExcelWrite

SpecExcel == InitExcel /\ [][NextExcel]_vars

----------------------------------------------------------------------------
(* xdf-freedom.py *)

RaceBoost == <<"R", "A", "C", "E", ":", " ", "M", "a", "x", "i", "m", "u", "m",
               " ", "B", "o", "o", "s", "t", " ", "C", "o", "n", "t", "r", "o", "l">>
RaceFuel == <<"R", "A", "C", "E", ":", " ", "F", "u", "e", "l", " ", "&", " ",
              "A", "F", "R">>
RaceIgnition == <<"R", "A", "C", "E", ":", " ", "S", "p", "a", "r", "k", " ",
                  "&", " ", "T", "i", "m", "i", "n", "g">>
RaceLimits == <<"R", "A", "C", "E", ":", " ", "S", "a", "f", "e", "t", "y", " ",
                "L", "i", "m", "i", "t", "s">>
RaceHighPerf == <<"R", "A", "C", "E", " ", "H", "I", "G", "H", " ", "P", "E",
                  "R", "F", " ">>

\* The four prompts, in order: the key and the default of each.
PromptKeys == <<BoostControl, Fuel, Ignition, Limits>>
PromptDefaults == <<RaceBoost, RaceFuel, RaceIgnition, RaceLimits>>

\* What the user types at a prompt: nothing, or " Fuel " (itself a key).
Answers == { <<>>, <<" ">> \o Fuel \o <<" ">> }

\* input(...).strip(), replaced by the default when empty
Answer(typed, default) ==
    IF Strip(typed) = <<>> THEN default ELSE Strip(typed)

\* prompt_user_for_menu_updates: the rename_map for the four typed answers
prompt_user_for_menu_updates(typed) ==
    [key \in {PromptKeys[j] : j \in 1..4} |->
        LET j == CHOOSE m \in 1..4 : PromptKeys[m] = key
        IN  Answer(typed[j], PromptDefaults[j])]

\* Documents given to the interactive script.
LowerFuel == <<"f", "u", "e", "l">>
CatNames == {None, Str(BoostControl), Str(Fuel), Str(LowerFuel)}
FreedomHeaders == {NoHeader} \cup {Header(cs) : cs \in SeqsUpTo(CatNames, MaxCats)}

TitleIgnitionFirst == Str(Ignition \o <<" ", "B">>)
TitleIgnitionInside == Str(<<"a", " ">> \o Ignition)
TitleLowerCase == Str(<<"i", "g", "n", "i", "t", "i", "o", "n">>)

FreedomTables ==
    { Table(NoElem, FALSE, FALSE, None, NoElem, <<>>),
      Table(None, FALSE, FALSE, None, NoElem, <<>>),             \* <title/>
      Table(TitleIgnitionFirst, TRUE, TRUE, AddrMixed, OldMax, <<>>),
      Table(TitleIgnitionInside, FALSE, FALSE, None, NoElem, <<>>),
      Table(TitleLowerCase, FALSE, FALSE, None, NoElem, <<>>),
      Table(TitleIgnitionFirst, FALSE, FALSE, None, NoElem, <<Str(Fuel)>>) }

FreedomDocs ==
    {[exists |-> TRUE, header |-> h, tables |-> ts] :
        h \in FreedomHeaders, ts \in SeqsUpTo(FreedomTables, MaxTables)}

\* One CATEGORY of the header: cat.get('name', '') looked up in the map.
OldName(cat) == IF cat.k = "str" THEN cat.s ELSE <<>>
RenameCategoryChained(cat, map) ==
    IF OldName(cat) \in DOMAIN map
    THEN IF map[OldName(cat)] \in DOMAIN map
         THEN Str(map[map[OldName(cat)]])
         ELSE Str(map[OldName(cat)])
    ELSE cat
RenameCategory(cat, map) ==
    IF OldName(cat) \in DOMAIN map THEN Str(map[OldName(cat)]) ELSE cat
CategoryLines(cats, map) ==
    LET hit == SelectSeq(cats, LAMBDA c : OldName(c) \in DOMAIN map)
    IN  [j \in 1..Len(hit) |-> Line("category", hit[j], Str(map[OldName(hit[j])]), <<>>)]

\* The CATEGORY loop over the children of the first XDFHEADER.
RenameHeader(header, map) ==
    IF header.present
    THEN [header EXCEPT !.cats = [j \in 1..Len(header.cats) |->
                                     RenameCategory(header.cats[j], map)]]
    ELSE header

\* One XDFTABLE of the title loop.
TitleHitStartsWith(table) ==
    /\ table.title # NoElem /\ Truthy(table.title)
    /\ Len(table.title.s) >= Len(Ignition)
    /\ SubSeq(table.title.s, 1, Len(Ignition)) = Ignition
TitleHit(table) ==
    table.title # NoElem /\ Truthy(table.title) /\ Contains(Ignition, table.title.s)
RenameTitle(table) ==
    IF TitleHit(table)
    THEN [table EXCEPT !.title = Str(RaceHighPerf \o table.title.s)]
    ELSE table
RenamedTitleLines(tables) ==
    LET hit == SelectSeq(tables, TitleHit)
    IN  [j \in 1..Len(hit) |-> Line("title", hit[j].title, RenameTitle(hit[j]).title, <<>>)]

FreedomFrame == UNCHANGED <<script, xdf, workbook, spreadsheet_data,
                            tables_by_addr, i>>

FreedomMain ==
    /\ script = "freedom" /\ pc = "main"
    /\ IF ~xdf.exists
       THEN /\ log' = Append(log, Line("error", Str(<<"x", "d", "f">>), None, <<>>))
            /\ pc' = "exited" /\ status' = "exit1"
       ELSE /\ pc' = "prompt" /\ UNCHANGED <<log, status>>
    /\ UNCHANGED <<tree, rename_map, output>>
    /\ FreedomFrame

Prompt ==
    /\ script = "freedom" /\ pc = "prompt"
    /\ \E typed \in [1..4 -> Answers] :
          rename_map' = prompt_user_for_menu_updates(typed)
    /\ pc' = "categories"
    /\ UNCHANGED <<tree, log, output, status>>
    /\ FreedomFrame

RenameCategories ==
    /\ script = "freedom" /\ pc = "categories"
    /\ tree' = [xdf EXCEPT !.header = RenameHeader(xdf.header, rename_map)]
    /\ log' = log \o CategoryLines(xdf.header.cats, rename_map)
    /\ pc' = "titles"
    /\ UNCHANGED <<rename_map, output, status>>
    /\ FreedomFrame

RenameTitles ==
    /\ script = "freedom" /\ pc = "titles"
    /\ tree' = [tree EXCEPT !.tables = [n \in 1..Len(tree.tables) |->
                                          RenameTitle(tree.tables[n])]]
    /\ log' = log \o RenamedTitleLines(tree.tables)
    /\ pc' = "write"
    /\ UNCHANGED <<rename_map, output, status>>
    /\ FreedomFrame

FreedomWrite ==
    /\ script = "freedom" /\ pc = "write"
    /\ output' = tree
    /\ log' = Append(log, Line("success", None, None, <<>>))
    /\ pc' = "done" /\ status' = "exit0"
    /\ UNCHANGED <<tree, rename_map>>
    /\ FreedomFrame

InitFreedom ==
    /\ script = "freedom" /\ pc = "main"
    /\ xdf \in FreedomDocs \cup {NoFile}
    /\ workbook = NoFile
    /\ spreadsheet_data = <<>>
    /\ tree = NoFile
    /\ tables_by_addr = <<>>
    /\ i = 0
    /\ rename_map = <<>>
    /\ log = <<>>
    /\ output = NoFile
    /\ status = "running"

NextFreedom ==
    \/ FreedomMain
    \/ Prompt
    \/ RenameCategories
    \/ RenameTitles
    \/ FreedomWrite

SpecFreedom == InitFreedom /\ [][NextFreedom]_vars

----------------------------------------------------------------------------
(* Properties of the spreadsheet script (checked under SpecExcel) *)

\* Normalisation as the specification states it: trim, then uppercase.
SpecNorm(s) == Upper(Strip(s))

\* The table carries a z-axis embedded-data address.
HasAddress(table) ==
    table.hasZ /\ table.hasEmbed /\ table.mmedaddress.k = "str"
        /\ table.mmedaddress.s # <<>>

\* The lines printed by the step being taken.
NewLines == SubSeq(log', Len(log) + 1, Len(log'))
CountKind(lines, kind) == Cardinality({j \in 1..Len(lines) : lines[j].kind = kind})

\* The pass goes on to the next record.
Continues == pc' = "rows" /\ i' = i + 1

TextAddress(row) == row.xdf_address.k = "str" /\ row.xdf_address.s # <<>>
NoAddress(row) == row.xdf_address = None \/ row.xdf_address = Str(<<>>)
KeyKnown(row) == SpecNorm(row.xdf_address.s) \in DOMAIN tables_by_addr

\* C1 as stated: a record whose target key is not in the index, an empty or
\* missing address included, leaves the tree unchanged, records exactly one
\* warning, and the pass continues.
C1_EveryUnresolvedRecordWarns ==
    [][ (AtRow /\ (NoAddress(CurRow) \/ (TextAddress(CurRow) /\ ~KeyKnown(CurRow))))
        => /\ tree' = tree
           /\ Len(NewLines) = 1 /\ NewLines[1].kind = "warning"
           /\ Continues ]_vars

\* C1 amended: a record whose address is a non-empty text whose trimmed,
\* uppercased form is no key of the index leaves the tree unchanged, prints
\* exactly one warning (naming the parameter and the key), and the pass
\* continues; a record whose address is empty or missing leaves the tree
\* unchanged and prints nothing, and the pass continues.
C1_UnresolvedWarnsNoAddressSilent ==
    [][ /\ (AtRow /\ TextAddress(CurRow) /\ ~KeyKnown(CurRow))
           => /\ tree' = tree
              /\ NewLines = <<Line("warning", CurRow.param_name, None,
                                   SpecNorm(CurRow.xdf_address.s))>>
              /\ Continues
        /\ (AtRow /\ NoAddress(CurRow))
           => /\ tree' = tree
              /\ NewLines = <<>>
              /\ Continues ]_vars

\* An unknown address was just reported while the index holds other keys and
\* the record carried a title and a bound that were not applied.
C1_Witness ==
    /\ script = "excel" /\ pc = "rows" /\ i > 0
    /\ spreadsheet_data[i].xdf_address = UnknownAddr
    /\ Truthy(spreadsheet_data[i].new_title) /\ spreadsheet_data[i].new_max # None
    /\ DOMAIN tables_by_addr # {}
    /\ log # <<>> /\ log[Len(log)].kind = "warning"
    /\ tree = xdf

\* C2 as stated: when a table's address and a record's address are equal
\* after trimming and uppercasing, the record resolves to that table (taken
\* here as the last such table in document order): no warning is printed, and
\* a numeric new bound is written to the table's <max> with two decimals.
C2_MatchIsTrimmedAndCaseInsensitive ==
    [][ (AtRow /\ TextAddress(CurRow))
        => \A n \in 1..Len(tree.tables) :
              ( /\ HasAddress(tree.tables[n])
                /\ SpecNorm(tree.tables[n].mmedaddress.s) = SpecNorm(CurRow.xdf_address.s)
                /\ \A m \in (n + 1)..Len(tree.tables) :
                      ~( HasAddress(tree.tables[m])
                         /\ SpecNorm(tree.tables[m].mmedaddress.s)
                              = SpecNorm(CurRow.xdf_address.s) ) )
              => /\ CountKind(NewLines, "warning") = 0
                 /\ (CurRow.new_max.k = "num" /\ tree.tables[n].max # NoElem)
                    => tree'.tables[n].max = Str(Format2f(CurRow.new_max.n)) ]_vars

\* C4 as stated: a table followed by a later table with the same normalised
\* address is never touched.
C4_EarlierDuplicateUntouched ==
    (script = "excel" /\ tree.exists)
    => \A m, n \in 1..Len(tree.tables) :
          ( /\ m < n
            /\ HasAddress(xdf.tables[m]) /\ HasAddress(xdf.tables[n])
            /\ SpecNorm(xdf.tables[m].mmedaddress.s) = SpecNorm(xdf.tables[n].mmedaddress.s) )
          => tree.tables[m] = xdf.tables[m]

\* The same with the key the index really files a table under (uppercased,
\* not trimmed): last write wins.  Not a claim; it holds.
LastWriteWinsOnIndexKey ==
    (script = "excel" /\ tree.exists)
    => \A m, n \in 1..Len(tree.tables) :
          ( /\ m < n
            /\ HasAddress(xdf.tables[m]) /\ HasAddress(xdf.tables[n])
            /\ IndexKey(xdf.tables[m].mmedaddress.s) = IndexKey(xdf.tables[n].mmedaddress.s) )
          => tree.tables[m] = xdf.tables[m]

\* The record being processed resolves, and n is the table it resolves to.
Resolved(row) == TextAddress(row) /\ KeyKnown(row)
Target(row) == tables_by_addr[SpecNorm(row.xdf_address.s)]

\* C6 as stated: the process ends with a non-zero status, one error message
\* and no parse, edit or output when a required input file is missing, and
\* with status 0, the output written and the success message last otherwise
\* (taken here for workbooks whose address cells hold text or nothing).
C6_ExitStatus ==
    (status # "running"
       /\ \A j \in 1..Len(spreadsheet_data) :
             spreadsheet_data[j].xdf_address.k \in {"str", "None"})
    => IF ~xdf.exists \/ (script = "excel" /\ ~workbook.exists)
       THEN /\ status = "exit1"
            /\ ~tree.exists /\ ~output.exists
            /\ Len(log) = 1 /\ log[1].kind = "error"
       ELSE /\ status = "exit0"
            /\ output.exists
            /\ log[Len(log)].kind = "success"

\* C7 as stated: a resolved record with a new bound, for a table with a
\* <max>, never aborts the pass, whether the old text or the new value is
\* numeric or not; a numeric new value is written whatever the old text was.
C7_NumericParseNeverFatal ==
    [][ (AtRow /\ Resolved(CurRow) /\ CurRow.new_max # None
               /\ tree.tables[Target(CurRow)].max # NoElem)
        => /\ Continues
           /\ CurRow.new_max.k = "num"
              => tree'.tables[Target(CurRow)].max = Str(Format2f(CurRow.new_max.n)) ]_vars

\* The part of C7 about the old text: with a numeric new bound the pass
\* continues and the new value is written, and the old value is logged as
\* None when the old text is no number.  Not a claim; it holds.
OldBoundOnlyAffectsLog ==
    [][ (AtRow /\ Resolved(CurRow) /\ CurRow.new_max.k = "num"
               /\ tree.tables[Target(CurRow)].max # NoElem)
        => /\ Continues
           /\ tree'.tables[Target(CurRow)].max = Str(Format2f(CurRow.new_max.n))
           /\ CountKind(NewLines, "max") = 1
           /\ (tree.tables[Target(CurRow)].max = BadMax
               => NewLines[Len(NewLines)].a = None) ]_vars

\* C8 as stated: for a resolved record the title is written iff the record
\* carries a title and the table has a <title>, the bound is written iff the
\* record carries a bound and the table has a <max> in its z axis, each at
\* most once, without warning or abort, and nothing else changes.
C8_FieldsIndependent ==
    [][ (AtRow /\ Resolved(CurRow))
        => LET n == Target(CurRow)
               old == tree.tables[n]
               new == tree'.tables[n]
               title == Truthy(CurRow.new_title) /\ old.title # NoElem
               bound == CurRow.new_max # None /\ old.hasZ /\ old.max # NoElem
           IN  /\ CountKind(NewLines, "title") = (IF title THEN 1 ELSE 0)
               /\ new.title = (IF title THEN CurRow.new_title ELSE old.title)
               /\ CountKind(NewLines, "max") = (IF bound THEN 1 ELSE 0)
               /\ ~bound => new.max = old.max
               /\ CountKind(NewLines, "warning") = 0
               /\ Len(NewLines) <= 2
               /\ Continues
               /\ \A m \in 1..Len(tree.tables) : m # n => tree'.tables[m] = tree.tables[m] ]_vars

\* The title half of C8, which no exception reaches.  Not a claim; it holds.
TitleWrittenIffCarriedAndPresent ==
    [][ (AtRow /\ Resolved(CurRow))
        => LET n == Target(CurRow)
               title == Truthy(CurRow.new_title) /\ tree.tables[n].title # NoElem
           IN  /\ CountKind(NewLines, "title") = (IF title THEN 1 ELSE 0)
               /\ tree'.tables[n].title
                    = (IF title THEN CurRow.new_title ELSE tree.tables[n].title) ]_vars

\* Row j of the workbook is loaded and resolves to table n.
RowHits(j, n) ==
    LET row == workbook.rows[j]
    IN  Truthy(row.param_name) /\ Resolved(row) /\ Target(row) = n
LastOf(S) == CHOOSE j \in S : \A m \in S : m <= j
TitleRows(n) == {j \in 1..Len(workbook.rows) :
                    RowHits(j, n) /\ Truthy(workbook.rows[j].new_title)}
BoundRows(n) == {j \in 1..Len(workbook.rows) :
                    RowHits(j, n) /\ workbook.rows[j].new_max # None}
Named(row) == Truthy(row.param_name)

\* C9: the loaded records are the rows with a name, in sheet order; and when
\* the run has completed, each table's title (bound) is the one of the last
\* row in sheet order that resolves to the table and carries a title (bound),
\* or the input's when there is no such row or no such element.
C9_LastRecordWins ==
    (script = "excel")
    => /\ (pc \in {"parse", "rows", "done", "crashed"})
          => spreadsheet_data = SelectSeq(workbook.rows, Named)
       /\ (pc = "done")
          => \A n \in 1..Len(xdf.tables) :
                /\ output.tables[n].title =
                     (IF xdf.tables[n].title = NoElem \/ TitleRows(n) = {}
                      THEN xdf.tables[n].title
                      ELSE workbook.rows[LastOf(TitleRows(n))].new_title)
                /\ output.tables[n].max =
                     (IF xdf.tables[n].max = NoElem \/ BoundRows(n) = {}
                      THEN xdf.tables[n].max
                      ELSE Str(Format2f(workbook.rows[LastOf(BoundRows(n))].new_max.n)))

\* The run has completed after two rows gave the same table different titles,
\* behind a row without a name or not: the later title is in the output.
C9_Witness ==
    /\ script = "excel" /\ pc = "done"
    /\ \E n \in 1..Len(xdf.tables) : \E j1, j2 \in TitleRows(n) :
          /\ j1 < j2
          /\ workbook.rows[j1].new_title # workbook.rows[j2].new_title
          /\ xdf.tables[n].title # NoElem
          /\ output.tables[n].title = workbook.rows[j2].new_title

\* Same nodes, same order, same addresses: only texts may differ.
SameShape(t, u) ==
    /\ t.header.present = u.header.present
    /\ Len(t.header.cats) = Len(u.header.cats)
    /\ Len(t.tables) = Len(u.tables)
    /\ \A n \in 1..Len(t.tables) :
          /\ (t.tables[n].title = NoElem) = (u.tables[n].title = NoElem)
          /\ t.tables[n].hasZ = u.tables[n].hasZ
          /\ t.tables[n].hasEmbed = u.tables[n].hasEmbed
          /\ t.tables[n].mmedaddress = u.tables[n].mmedaddress
          /\ (t.tables[n].max = NoElem) = (u.tables[n].max = NoElem)
          /\ Len(t.tables[n].cats) = Len(u.tables[n].cats)

\* Only table titles and z-axis bounds differ (spreadsheet script).
OnlyTitleAndMaxDiffer(t, u) ==
    /\ t.header = u.header
    /\ \A n \in 1..Len(t.tables) :
          [t.tables[n] EXCEPT !.title = NoElem, !.max = NoElem]
            = [u.tables[n] EXCEPT !.title = NoElem, !.max = NoElem]

\* C10 as stated (spreadsheet script): in every state of the pass the tree
\* has the nodes, order and addresses of the input, only title and bound
\* texts differ, and every index entry maps its key to a table whose address
\* normalises (trim, uppercase) to that key.
C10_StructureAndIndexValid ==
    (script = "excel" /\ tree.exists)
    => /\ SameShape(tree, xdf)
       /\ OnlyTitleAndMaxDiffer(tree, xdf)
       /\ \A key \in DOMAIN tables_by_addr :
             /\ tables_by_addr[key] \in 1..Len(tree.tables)
             /\ HasAddress(tree.tables[tables_by_addr[key]])
             /\ SpecNorm(tree.tables[tables_by_addr[key]].mmedaddress.s) = key

\* The same with the key the index really uses (uppercased, not trimmed).
\* Not a claim; it holds.
StructureKeptAndIndexKeyValid ==
    (script = "excel" /\ tree.exists)
    => /\ SameShape(tree, xdf)
       /\ OnlyTitleAndMaxDiffer(tree, xdf)
       /\ \A key \in DOMAIN tables_by_addr :
             /\ tables_by_addr[key] \in 1..Len(tree.tables)
             /\ HasAddress(tree.tables[tables_by_addr[key]])
             /\ IndexKey(tree.tables[tables_by_addr[key]].mmedaddress.s) = key

----------------------------------------------------------------------------
(* Properties of the interactive script (checked under SpecFreedom) *)

\* The name a category must end with: the value mapped from its input name.
Renamed(cat) ==
    IF cat.k = "str" /\ cat.s \in DOMAIN rename_map
    THEN Str(rename_map[cat.s])
    ELSE cat

HasIgnition(s) ==
    \E a \in 1..Len(s) :
        /\ a + 7 <= Len(s)
        /\ s[a] = "I" /\ s[a + 1] = "g" /\ s[a + 2] = "n" /\ s[a + 3] = "i"
        /\ s[a + 4] = "t" /\ s[a + 5] = "i" /\ s[a + 6] = "o" /\ s[a + 7] = "n"

\* C5: once the title loop has run, and in the output, the title of every
\* table that has one is "RACE HIGH PERF " followed by the input title when
\* the input title contains "Ignition", and the input title otherwise,
\* whatever the rename map holds.
C5_IgnitionTitlesPrefixedOnce ==
    (script = "freedom" /\ pc \in {"write", "done"})
    => \A n \in 1..Len(xdf.tables) :
          LET old == xdf.tables[n].title
              want == IF old.k = "str" /\ HasIgnition(old.s)
                      THEN Str(RaceHighPerf \o old.s)
                      ELSE old
          IN  /\ tree.tables[n].title = want
              /\ pc = "done" => output.tables[n].title = want

\* The run has completed on a document with a title that contains "Ignition"
\* after other text and a title that differs from it in case only, under a
\* map whose "Ignition" entry is not the default.
C5_Witness ==
    /\ script = "freedom" /\ pc = "done"
    /\ rename_map[Ignition] # RaceIgnition
    /\ \E n \in 1..Len(xdf.tables) :
          /\ xdf.tables[n].title = TitleIgnitionInside
          /\ output.tables[n].title = Str(RaceHighPerf \o TitleIgnitionInside.s)
    /\ \E n \in 1..Len(xdf.tables) :
          /\ xdf.tables[n].title = TitleLowerCase
          /\ output.tables[n].title = TitleLowerCase

\* The interactive script keeps the nodes, their order and the addresses of
\* the input; only header category names and table titles differ.  Not a
\* claim; it holds.
StructureKeptInteractive ==
    (script = "freedom" /\ tree.exists)
    => /\ SameShape(tree, xdf)
       /\ \A n \in 1..Len(tree.tables) :
             [tree.tables[n] EXCEPT !.title = NoElem]
               = [xdf.tables[n] EXCEPT !.title = NoElem]

====
